---------------------------- MODULE Spec2Model ----------------------------
(***************************************************************************)
(* A model of the ai2048 library: the bit-packed 2048 board of             *)
(* game_logic.rs (Row = u16, Grid and Column = u64) and the lazily         *)
(* expanded, cached game tree of search_tree.rs.                           *)
(*                                                                         *)
(* A u16 is a natural number below 2^16.  A u64 does not fit the model     *)
(* checker's integers, so it is kept at its full width as its 16           *)
(* hexadecimal digits, most significant first: digit 1 is bits 63..60,     *)
(* digit 16 is bits 3..0.  Shifts, masks and additions are computed on     *)
(* the digits exactly as the machine computes them on the word.            *)
(***************************************************************************)
EXTENDS Integers, Sequences, FiniteSets, TLC

VARIABLES
    grid,       \* the Grid the caller holds
    op,         \* the last operation the caller applied
    arg,        \* its argument
    ret,        \* what it returned
    first,      \* the caller's first grid
    n_calls,    \* the add_random_tile calls made since
    behind,     \* what lies in memory behind each move table, once it was read
    root_node,      \* SearchTree.root_node: the handle of the root PlayerNode
    player_node,    \* NodeCache.player_node: board -> weak handle
    computer_node,  \* NodeCache.computer_node: board -> weak handle
    players,        \* the PlayerNodes not yet freed, by handle
    computers,      \* the ComputerNodes not yet freed, by handle
    next_id,        \* the handle the next allocated node gets
    n_set_root      \* the set_root calls made so far

\* The state of a SearchTree and of the nodes it owns.
tree == <<root_node, player_node, computer_node, players, computers, next_id,
          n_set_root>>

vars == <<grid, op, arg, ret, first, n_calls, behind, tree>>

-----------------------------------------------------------------------------
(* Machine words *)

Pow2(n) == 2 ^ n

RECURSIVE BitAnd(_, _)
BitAnd(a, b) ==
    IF a = 0 \/ b = 0 THEN 0
    ELSE (a % 2) * (b % 2) + 2 * BitAnd(a \div 2, b \div 2)

RECURSIVE BitOr(_, _)
BitOr(a, b) ==
    IF a = 0 THEN b
    ELSE IF b = 0 THEN a
    ELSE (IF a % 2 = 1 \/ b % 2 = 1 THEN 1 ELSE 0) + 2 * BitOr(a \div 2, b \div 2)

U16Max == 65535

\* x << n on a u16: the bits shifted out are lost.
Shl16(x, n) == (x * Pow2(n)) % (U16Max + 1)

Shr16(x, n) == x \div Pow2(n)

Digits == 1..16

\* The word whose digit i is f[i], with every digit computed once.
U64(f) ==
    << f[1], f[2], f[3], f[4], f[5], f[6], f[7], f[8],
       f[9], f[10], f[11], f[12], f[13], f[14], f[15], f[16] >>

\* Digit i of the word x, 0 outside the word.
Digit(x, i) == IF i \in Digits THEN x[i] ELSE 0

U64Zero == U64([i \in Digits |-> 0])

\* x >> n on a u64, 0 <= n < 64.
Shr64(x, n) ==
    LET q == n \div 4
        r == n % 4
    IN  U64([i \in Digits |->
                (Digit(x, i - q) \div Pow2(r))
                + (Digit(x, i - q - 1) % Pow2(r)) * Pow2(4 - r)])

\* x << n on a u64, 0 <= n < 64: the bits shifted out are lost.
Shl64(x, n) ==
    LET q == n \div 4
        r == n % 4
    IN  U64([i \in Digits |->
                ((Digit(x, i + q) * Pow2(r)) % 16)
                + (Digit(x, i + q + 1) \div Pow2(4 - r))])

And64(x, y) == U64([i \in Digits |-> BitAnd(x[i], y[i])])

Or64(x, y) == U64([i \in Digits |-> BitOr(x[i], y[i])])

Not64(x) == U64([i \in Digits |-> 15 - x[i]])

RECURSIVE Carry64(_, _, _)
\* The carry into digit i - 1 of x + y.
Carry64(x, y, i) ==
    IF i > 16 THEN 0 ELSE (x[i] + y[i] + Carry64(x, y, i + 1)) \div 16

\* x + y on a u64, as count_empty relies on it (no carry leaves the word there).
Add64(x, y) == U64([i \in Digits |-> (x[i] + y[i] + Carry64(x, y, i + 1)) % 16])

\* u64::from(r) of a u16.
From16(r) ==
    U64([i \in Digits |->
            IF i <= 12 THEN 0 ELSE Shr16(r, 4 * (16 - i)) % 16])

\* x as u16 of a u64: the low 16 bits.
Low16(x) == x[13] * 4096 + x[14] * 256 + x[15] * 16 + x[16]

-----------------------------------------------------------------------------
(* Move, Row, Column *)

Left == 0
Right == 1
Up == 2
Down == 3

MOVES == <<Left, Right, Up, Down>>

\* Option<T>: None is the empty sequence, Some(x) the sequence holding x.
None == <<>>

Some(x) == <<x>>

\* The loop of Row::pack over row[i..].
RECURSIVE pack_from(_, _, _)
pack_from(row, i, result) ==
    IF i > 4 THEN Some(result)
    ELSE IF row[i] > 15 THEN None
    ELSE pack_from(row, i + 1, Shl16(result, 4) + row[i])

\* Row::pack without the test tile > 0b1111.
pack_unchecked(row) ==
    Some((Shl16(Shl16(Shl16(row[1], 4) + row[2], 4) + row[3], 4) + row[4])
             % (U16Max + 1))

pack(row) == pack_from(row, 1, 0)

unpack(row) ==
    << Shr16(BitAnd(row, 61440), 12),
       Shr16(BitAnd(row, 3840), 8),
       Shr16(BitAnd(row, 240), 4),
       BitAnd(row, 15) >>

reverse(row) ==
    BitOr(BitOr(Shr16(row, 12), BitAnd(Shr16(row, 4), 240)),
          BitOr(BitAnd(Shl16(row, 4), 3840), Shl16(row, 12)))

COLUMN_MASK == <<0, 0, 0, 15, 0, 0, 0, 15, 0, 0, 0, 15, 0, 0, 0, 15>>

from_row(row) ==
    LET r == From16(row)
    IN  And64(Or64(Or64(r, Shl64(r, 12)), Or64(Shl64(r, 24), Shl64(r, 36))),
              COLUMN_MASK)

-----------------------------------------------------------------------------
(* The row kernel and the move tables *)

\* The loop of move_row_left over from_row[i..]; s = [to_row, last, last_index].
RECURSIVE sweep(_, _, _)
sweep(from, i, s) ==
    IF i > 4 THEN s
    ELSE LET tile == from[i] IN
         IF tile = 0 THEN sweep(from, i + 1, s)
         ELSE IF s.last = 0 THEN sweep(from, i + 1, [s EXCEPT !.last = tile])
         ELSE IF tile = s.last
              THEN sweep(from, i + 1,
                         [to_row |-> [s.to_row EXCEPT ![s.last_index + 1] = s.last + 1],
                          last |-> 0,
                          last_index |-> s.last_index + 1])
              ELSE sweep(from, i + 1,
                         [to_row |-> [s.to_row EXCEPT ![s.last_index + 1] = s.last],
                          last |-> tile,
                          last_index |-> s.last_index + 1])

\* move_row_left with a merge that keeps the merged tile pending, so that it
\* merges again with the next equal tile.
RECURSIVE sweep_remerge(_, _, _)
sweep_remerge(from, i, s) ==
    IF i > 4 THEN s
    ELSE LET tile == from[i] IN
         IF tile = 0 THEN sweep_remerge(from, i + 1, s)
         ELSE IF s.last = 0 THEN sweep_remerge(from, i + 1, [s EXCEPT !.last = tile])
         ELSE IF tile = s.last
              THEN sweep_remerge(from, i + 1, [s EXCEPT !.last = s.last + 1])
              ELSE sweep_remerge(from, i + 1,
                         [to_row |-> [s.to_row EXCEPT ![s.last_index + 1] = s.last],
                          last |-> tile,
                          last_index |-> s.last_index + 1])

move_row_left_remerge(row) ==
    LET s == sweep_remerge(unpack(row), 1,
                   [to_row |-> <<0, 0, 0, 0>>, last |-> 0, last_index |-> 0])
        to_row == IF s.last # 0
                  THEN [s.to_row EXCEPT ![s.last_index + 1] = s.last]
                  ELSE s.to_row
        packed == pack(to_row)
    IN  IF packed = None THEN 0 ELSE packed[1]

move_row_left(row) ==
    LET s == sweep(unpack(row), 1,
                   [to_row |-> <<0, 0, 0, 0>>, last |-> 0, last_index |-> 0])
        to_row == IF s.last # 0
                  THEN [s.to_row EXCEPT ![s.last_index + 1] = s.last]
                  ELSE s.to_row
        packed == pack(to_row)
    IN  IF packed = None THEN 0 ELSE packed[1]

\* vec![..; u16::MAX as usize]: the number of entries of each table.
TableLen == 65535

CACHE_LEFT(index) == move_row_left(index)

CACHE_RIGHT(index) == reverse(move_row_left(reverse(index)))

CACHE_UP(index) == from_row(CACHE_LEFT(index))

CACHE_DOWN(index) == from_row(CACHE_RIGHT(index))

\* get_unchecked: an index past the table reads whatever lies behind it (oob).
lookup_left(row, oob) == IF row < TableLen THEN CACHE_LEFT(row) ELSE oob.left

lookup_right(row, oob) == IF row < TableLen THEN CACHE_RIGHT(row) ELSE oob.right

lookup_up(row, oob) == IF row < TableLen THEN CACHE_UP(row) ELSE oob.up

lookup_down(row, oob) == IF row < TableLen THEN CACHE_DOWN(row) ELSE oob.down

-----------------------------------------------------------------------------
(* Grid *)

rows(g) ==
    << Low16(Shr64(And64(g, <<15,15,15,15, 0,0,0,0, 0,0,0,0, 0,0,0,0>>), 48)),
       Low16(Shr64(And64(g, <<0,0,0,0, 15,15,15,15, 0,0,0,0, 0,0,0,0>>), 32)),
       Low16(Shr64(And64(g, <<0,0,0,0, 0,0,0,0, 15,15,15,15, 0,0,0,0>>), 16)),
       Low16(And64(g, <<0,0,0,0, 0,0,0,0, 0,0,0,0, 15,15,15,15>>)) >>

from_rows(rs) ==
    Or64(Or64(Or64(Or64(U64Zero, Shl64(From16(rs[1]), 48)),
                   Shl64(From16(rs[2]), 32)),
              Shl64(From16(rs[3]), 16)),
         From16(rs[4]))

from_columns(columns) ==
    Or64(Or64(Or64(Or64(U64Zero, Shl64(columns[1], 12)),
                   Shl64(columns[2], 8)),
              Shl64(columns[3], 4)),
         columns[4])

unpack_log(g) ==
    LET rs == rows(g)
    IN  <<unpack(rs[1]), unpack(rs[2]), unpack(rs[3]), unpack(rs[4])>>

\* transpose that stops after its first stage of swaps.
transpose_first_stage(g) ==
    LET x  == g
        a1 == And64(x, <<15,0,15,0, 0,15,0,15, 15,0,15,0, 0,15,0,15>>)
        a2 == And64(x, <<0,0,0,0, 15,0,15,0, 0,0,0,0, 15,0,15,0>>)
        a3 == And64(x, <<0,15,0,15, 0,0,0,0, 0,15,0,15, 0,0,0,0>>)
    IN  Or64(Or64(a1, Shl64(a2, 12)), Shr64(a3, 12))

transpose(g) ==
    LET x  == g
        a1 == And64(x, <<15,0,15,0, 0,15,0,15, 15,0,15,0, 0,15,0,15>>)
        a2 == And64(x, <<0,0,0,0, 15,0,15,0, 0,0,0,0, 15,0,15,0>>)
        a3 == And64(x, <<0,15,0,15, 0,0,0,0, 0,15,0,15, 0,0,0,0>>)
        a  == Or64(Or64(a1, Shl64(a2, 12)), Shr64(a3, 12))
        b1 == And64(a, <<15,15,0,0, 15,15,0,0, 0,0,15,15, 0,0,15,15>>)
        b2 == And64(a, <<0,0,15,15, 0,0,15,15, 0,0,0,0, 0,0,0,0>>)
        b3 == And64(a, <<0,0,0,0, 0,0,0,0, 15,15,0,0, 15,15,0,0>>)
    IN  Or64(Or64(b1, Shr64(b2, 24)), Shl64(b3, 24))

move_left(g, oob) ==
    LET rs == rows(g)
    IN  from_rows(<<lookup_left(rs[1], oob), lookup_left(rs[2], oob),
                    lookup_left(rs[3], oob), lookup_left(rs[4], oob)>>)

move_right(g, oob) ==
    LET rs == rows(g)
    IN  from_rows(<<lookup_right(rs[1], oob), lookup_right(rs[2], oob),
                    lookup_right(rs[3], oob), lookup_right(rs[4], oob)>>)

move_up(g, oob) ==
    LET rs == rows(transpose(g))
    IN  from_columns(<<lookup_up(rs[1], oob), lookup_up(rs[2], oob),
                       lookup_up(rs[3], oob), lookup_up(rs[4], oob)>>)

move_down(g, oob) ==
    LET rs == rows(transpose(g))
    IN  from_columns(<<lookup_down(rs[1], oob), lookup_down(rs[2], oob),
                       lookup_down(rs[3], oob), lookup_down(rs[4], oob)>>)

make_move(g, mv, oob) ==
    CASE mv = Left  -> move_left(g, oob)
      [] mv = Right -> move_right(g, oob)
      [] mv = Up    -> move_up(g, oob)
      [] mv = Down  -> move_down(g, oob)


\* The find of game_over over MOVES[i..]: the first move that changes the grid.
RECURSIVE find_move(_, _, _)
find_move(g, i, oob) ==
    IF i > Len(MOVES) THEN None
    ELSE IF make_move(g, MOVES[i], oob) # g THEN Some(MOVES[i])
    ELSE find_move(g, i + 1, oob)

game_over(g, oob) == find_move(g, 1, oob) = None

count_empty(g) ==
    LET x0 == g
        x1 == Or64(x0, And64(Shr64(x0, 2), <<3,3,3,3, 3,3,3,3, 3,3,3,3, 3,3,3,3>>))
        x2 == Or64(x1, Shr64(x1, 1))
        x3 == And64(Not64(x2), <<1,1,1,1, 1,1,1,1, 1,1,1,1, 1,1,1,1>>)
        x4 == Add64(x3, Shr64(x3, 32))
        x5 == Add64(x4, Shr64(x4, 16))
        x6 == Add64(x5, Shr64(x5, 8))
        x7 == Add64(x6, Shr64(x6, 4))
    IN  Low16(And64(x7, From16(15)))

\* AiMoves that walks the nibbles from the least significant one up.
RECURSIVE ai_moves_low_first(_, _, _)
ai_moves_low_first(g, index, val) ==
    LET idx == index - 1 IN
    IF idx < 0 THEN <<>>
    ELSE LET at   == 15 - idx
             mask == Shl64(From16(15), at * 4) IN
         IF And64(g, mask) = U64Zero
         THEN <<Or64(g, Shl64(From16(val), at * 4))>>
              \o ai_moves_low_first(g, idx, val)
         ELSE ai_moves_low_first(g, idx, val)

\* AiMoves::next, called until it returns None: the grids it yields, in order.
\* index is the iterator's field on entry to next.
RECURSIVE ai_moves(_, _, _)
ai_moves(g, index, val) ==
    LET idx == index - 1 IN
    IF idx < 0 THEN <<>>
    ELSE LET mask == Shl64(From16(15), idx * 4) IN
         IF And64(g, mask) = U64Zero
         THEN <<Or64(g, Shl64(From16(val), idx * 4))>> \o ai_moves(g, idx, val)
         ELSE ai_moves(g, idx, val)

ai_moves_with2(g) == ai_moves(g, 16, 1)

ai_moves_with4(g) == ai_moves(g, 16, 2)


-----------------------------------------------------------------------------
(* The human-readable codec *)

RECURSIVE Log2Floor(_)
\* The whole part of log2(n), n > 0.
Log2Floor(n) == IF n < 2 THEN 0 ELSE 1 + Log2Floor(n \div 2)

\* Whether log2(n) < k + 1/2, that is n * n < 2^(2k+1), for 2^k <= n < 2^17;
\* n * n is computed in two 16-bit halves (hi, lo) to stay inside 31 bits.
below_half(n, k) ==
    LET a  == n \div 256
        b  == n % 256
        t  == 512 * a * b + b * b
        hi == a * a + t \div 65536
        lo == t % 65536
    IN  IF 2 * k + 1 >= 16
        THEN hi < Pow2(2 * k + 1 - 16)
        ELSE hi * 65536 + lo < Pow2(2 * k + 1)

\* to_log: log = log2(n) (0 for n = 0), rounded = log.round(), and the test
\* (rounded - log) < 1e-10, which has no abs():
\*   n a power of two:   log is whole, rounded = log            -> Some(log)
\*   log2(n) < k + 1/2:  rounded = k < log, the difference < 0  -> Some(k)
\*   otherwise:          rounded = k + 1 > log                  -> None
to_log(n) ==
    IF n = 0 THEN Some(0)
    ELSE LET k == Log2Floor(n) IN
         IF n = Pow2(k) THEN Some(k)
         ELSE IF below_half(n, k) THEN Some(k)
         ELSE None

\* The inner loop of from_human over row[y..], then Row::pack(new_row).
RECURSIVE human_row(_, _, _)
human_row(row, y, new_row) ==
    IF y > 4 THEN pack(new_row)
    ELSE LET log == to_log(row[y]) IN
         IF log = None THEN None
         ELSE human_row(row, y + 1, [new_row EXCEPT ![y] = log[1]])

\* The outer loop of from_human over grid[x..].
RECURSIVE human_rows(_, _, _)
human_rows(g, x, rs) ==
    IF x > 4 THEN Some(from_rows(rs))
    ELSE LET r == human_row(g[x], 1, <<0, 0, 0, 0>>) IN
         IF r = None THEN None
         ELSE human_rows(g, x + 1, [rs EXCEPT ![x] = r[1]])

from_human(g) == human_rows(g, 1, <<0, 0, 0, 0>>)

\* unpack_human without the match on 0: every tile becomes 1 << tile.
unpack_human_shift_only(g) ==
    LET grid_u8 == unpack_log(g)
    IN  [x \in 1..4 |-> [y \in 1..4 |-> Pow2(grid_u8[x][y])]]

unpack_human(g) ==
    LET grid_u8 == unpack_log(g)
    IN  [x \in 1..4 |->
            [y \in 1..4 |->
                IF grid_u8[x][y] = 0 THEN 0 ELSE Pow2(grid_u8[x][y])]]

\* The loop of from_log over grid[x..].
RECURSIVE log_rows(_, _, _)
log_rows(g, x, rs) ==
    IF x > 4 THEN Some(from_rows(rs))
    ELSE LET r == pack(g[x]) IN
         IF r = None THEN None
         ELSE log_rows(g, x + 1, [rs EXCEPT ![x] = r[1]])

from_log(g) == log_rows(g, 1, <<0, 0, 0, 0>>)

-----------------------------------------------------------------------------
(* add_random_tile *)

\* grid.iter().flatten(): the 16 tiles in row-major order.
flatten(g) == [i \in 1..16 |-> g[((i - 1) \div 4) + 1][((i - 1) % 4) + 1]]

\* .filter(|v| **v == 0): the places of the empty tiles among flat[i..], in order.
RECURSIVE empty_places(_, _)
empty_places(flat, i) ==
    IF i > 16 THEN <<>>
    ELSE (IF flat[i] = 0 THEN <<i>> ELSE <<>>) \o empty_places(flat, i + 1)

empty_tile_count(g) == Len(empty_places(flatten(unpack_log(g)), 1))

\* add_random_tile that takes the position-th tile of all, empty or not.
add_random_tile_any_tile(g, position, four) ==
    LET log   == unpack_log(g)
        place == position + 1
        x     == ((place - 1) \div 4) + 1
        y     == ((place - 1) % 4) + 1
        value == IF four THEN 2 ELSE 1
    IN  from_log([log EXCEPT ![x][y] = value])[1]

\* add_random_tile with its two random draws given: position = gen_range(0,
\* empty_tile_count) and four = gen_bool(0.1).  Only called with an empty tile.
add_random_tile(g, position, four) ==
    LET log   == unpack_log(g)
        place == empty_places(flatten(log), 1)[position + 1]
        x     == ((place - 1) \div 4) + 1
        y     == ((place - 1) % 4) + 1
        value == IF four THEN 2 ELSE 1
    IN  from_log([log EXCEPT ![x][y] = value])[1]

-----------------------------------------------------------------------------
(* Memory behind the move tables *)

\* Each table holds TableLen entries, so lookup index 65535 reads the bytes
\* that follow it.  Nothing in the library writes there: the first such read of
\* a table finds an arbitrary value, later reads of that table find it again.
Tables == {"left", "right", "up", "down"}

OobRowReads == {0, 65535}

OobColumnReads == {U64Zero, COLUMN_MASK, U64([i \in Digits |-> 15])}

Unread == [t \in Tables |-> None]

ZeroMem == [left |-> 0, right |-> 0, up |-> U64Zero, down |-> U64Zero]

TableOf(mv) ==
    CASE mv = Left -> "left" [] mv = Right -> "right"
      [] mv = Up -> "up" [] mv = Down -> "down"

\* The tables make_move(g, mv) reads past their end.
oob_reads(g, mv) ==
    LET rs == IF mv \in {Left, Right} THEN rows(g) ELSE rows(transpose(g))
    IN  IF \E x \in 1..4 : rs[x] >= TableLen THEN {TableOf(mv)} ELSE {}

\* The tables the four moves of g read past their end.
all_oob_reads(g) == UNION {oob_reads(g, MOVES[i]) : i \in 1..Len(MOVES)}

\* The memory as read so far; a table never read past its end is left at zero.
Mem == [t \in Tables |-> IF behind[t] = None THEN ZeroMem[t] ELSE behind[t][1]]

\* The memory contents an operation reading `need` may find.
Mems(need) ==
    IF need = {} /\ behind = Unread THEN {ZeroMem}
    ELSE { m \in [left : OobRowReads, right : OobRowReads,
                  up : OobColumnReads, down : OobColumnReads] :
             \A t \in Tables :
                 /\ behind[t] # None => m[t] = behind[t][1]
                 /\ (behind[t] = None /\ t \notin need) => m[t] = ZeroMem[t] }

Observe(m, need) ==
    [t \in Tables |-> IF t \in need THEN Some(m[t]) ELSE behind[t]]


-----------------------------------------------------------------------------
(* The inputs the caller draws from *)

\* Tiles of the swept lines are 0..MaxTile.
MaxTile == 2

\* Human cell values 0..MaxCell are tried at every cell, besides the ones below.
MaxCell == 9

\* A board given by its 16 tiles in row-major order, as a human grid.
Human(b) ==
    [x \in 1..4 |->
        [y \in 1..4 |->
            LET k == b[4 * (x - 1) + y] IN IF k = 0 THEN 0 ELSE Pow2(k)]]

\* One line (a row or a column) of tiles 0..MaxTile on an empty board.
LineBoards ==
    { [i \in 1..16 |->
          LET x == ((i - 1) \div 4) + 1
              y == ((i - 1) % 4) + 1
          IN  IF o = "row" /\ x = pos THEN line[y]
              ELSE IF o = "col" /\ y = pos THEN line[x]
              ELSE 0] :
      line \in [1..4 -> 0..MaxTile], pos \in 1..4, o \in {"row", "col"} }

\* The boards of the tests of game_logic.rs and search_tree.rs.
TestBoards ==
    { <<1,1,2,2, 0,1,1,0, 0,1,1,1, 1,0,0,1>>,
      <<0,3,3,3, 3,3,0,3, 3,3,3,0, 3,0,3,3>>,
      <<0,0,0,1, 0,1,0,1, 2,0,0,1, 0,0,0,1>>,
      <<2,4,3,2, 3,7,5,1, 1,5,4,3, 2,1,2,1>>,
      <<0,1,2,3, 4,5,6,7, 8,9,10,11, 12,13,14,15>>,
      <<0,1,2,1, 0,2,1,2, 2,1,2,1, 1,2,1,2>> }

\* Boards holding tiles of value 15, merging or not, and full lines of them.
TopBoards ==
    { <<15,15,0,0, 0,0,0,0, 0,0,0,0, 0,0,0,0>>,
      <<15,14,15,15, 1,2,1,2, 2,1,2,1, 1,2,1,2>>,
      <<15,1,2,1, 15,2,1,2, 14,1,2,1, 14,2,1,2>>,
      <<15,15,15,15, 1,2,1,2, 2,1,2,1, 1,2,1,2>>,
      <<15,1,2,1, 15,2,1,2, 15,1,2,1, 15,2,1,2>>,
      <<15,15,15,15, 15,15,15,15, 15,15,15,15, 15,15,15,15>>,
      <<15,14,15,14, 14,15,14,15, 15,14,15,14, 14,15,14,15>> }

\* Boards whose first n cells are empty, n = 0..16.
PrefixBoards ==
    { [i \in 1..16 |-> IF i <= n THEN 0 ELSE (i % 3) + 1] : n \in 0..16 }

Boards == LineBoards \cup TestBoards \cup TopBoards \cup PrefixBoards

CellInputs ==
    (0..MaxCell) \cup {Pow2(k) : k \in 4..17}
    \cup {40000, 46341, 49152, 65535, 65537, 98304}

BaseHuman ==
    << <<0, 2, 4, 8>>, <<16, 32, 64, 128>>,
       <<256, 512, 1024, 2048>>, <<4096, 8192, 16384, 32768>> >>

HumanInputs ==
    {Human(b) : b \in Boards}
    \cup {[BaseHuman EXCEPT ![x][y] = v] : x \in 1..4, y \in 1..4, v \in CellInputs}

-----------------------------------------------------------------------------
(* The board API: a caller makes one grid and applies one operation to it *)

\* No SearchTree has been made.
NoTree ==
    /\ root_node = None
    /\ player_node = <<>>
    /\ computer_node = <<>>
    /\ players = <<>>
    /\ computers = <<>>
    /\ next_id = 1
    /\ n_set_root = 0

Init ==
    /\ grid = U64Zero           \* Grid::default()
    /\ op = "default"
    /\ arg = None
    /\ ret = None
    /\ first = grid
    /\ n_calls = 0
    /\ behind = Unread
    /\ NoTree

FromHuman ==
    /\ op = "default"
    /\ \E h \in HumanInputs :
        LET r == from_human(h) IN
        /\ op' = "from_human"
        /\ arg' = h
        /\ ret' = r
        /\ grid' = IF r = None THEN grid ELSE r[1]
    /\ UNCHANGED <<first, n_calls, behind, tree>>

\* The caller holds a grid: the default one, or one from_human returned.
Ready == op = "default" \/ (op = "from_human" /\ ret # None)

MakeMove ==
    /\ Ready
    /\ \E mv \in {Left, Right, Up, Down} :
         LET need == oob_reads(grid, mv) IN
         \E m \in Mems(need) :
            /\ op' = "make_move"
            /\ arg' = mv
            /\ ret' = make_move(grid, mv, m)
            /\ behind' = Observe(m, need)
            /\ UNCHANGED <<grid, n_calls, first, tree>>

Transpose ==
    /\ Ready
    /\ op' = "transpose"
    /\ arg' = None
    /\ ret' = transpose(grid)
    /\ UNCHANGED <<grid, first, n_calls, behind, tree>>

CountEmpty ==
    /\ Ready
    /\ op' = "count_empty"
    /\ arg' = None
    /\ ret' = count_empty(grid)
    /\ UNCHANGED <<grid, first, n_calls, behind, tree>>

AiMovesWith2 ==
    /\ Ready
    /\ op' = "ai_moves"
    /\ arg' = 1
    /\ ret' = ai_moves_with2(grid)
    /\ UNCHANGED <<grid, first, n_calls, behind, tree>>

AiMovesWith4 ==
    /\ Ready
    /\ op' = "ai_moves"
    /\ arg' = 2
    /\ ret' = ai_moves_with4(grid)
    /\ UNCHANGED <<grid, first, n_calls, behind, tree>>

UnpackHuman ==
    /\ Ready
    /\ op' = "unpack_human"
    /\ arg' = None
    /\ ret' = unpack_human(grid)
    /\ UNCHANGED <<grid, first, n_calls, behind, tree>>

Next ==
    \/ FromHuman
    \/ MakeMove
    \/ Transpose
    \/ CountEmpty
    \/ AiMovesWith2
    \/ AiMovesWith4
    \/ UnpackHuman

Spec == Init /\ [][Next]_vars


-----------------------------------------------------------------------------
(* A game's spawns: add_random_tile called over and over *)

\* At most MaxSpawns successive add_random_tile calls.
MaxSpawns == 2

\* The empty board, boards with four, two and one empty cell, and full boards.
GameSeeds ==
    { U64Zero,
      <<0,3,3,3, 3,3,0,3, 3,3,3,0, 3,0,3,3>>,
      <<2,4,3,2, 3,7,5,1, 1,5,0,3, 2,1,2,0>>,
      <<2,4,3,2, 3,7,5,1, 1,5,4,3, 2,1,2,0>>,
      <<2,4,3,2, 3,7,5,1, 1,5,4,3, 2,1,2,1>>,
      <<1,1,1,1, 1,1,1,1, 1,1,1,1, 1,1,1,1>> }

InitGame ==
    /\ grid \in GameSeeds
    /\ op = "default"
    /\ arg = None
    /\ ret = None
    /\ first = grid
    /\ n_calls = 0
    /\ behind = Unread
    /\ NoTree

\* add_random_tile on a grid with an empty tile: the two draws are arbitrary.
AddRandomTile ==
    /\ op # "panic"
    /\ n_calls < MaxSpawns
    /\ empty_tile_count(grid) > 0
    /\ \E position \in 0..(empty_tile_count(grid) - 1), four \in BOOLEAN :
        /\ grid' = add_random_tile(grid, position, four)
        /\ op' = "add_random_tile"
        /\ arg' = grid
        /\ ret' = grid'
    /\ n_calls' = n_calls + 1
    /\ UNCHANGED <<first, behind, tree>>

\* add_random_tile on a full grid: gen_range(0, 0) panics, nothing is returned.
AddRandomTilePanic ==
    /\ op # "panic"
    /\ n_calls < MaxSpawns
    /\ empty_tile_count(grid) = 0
    /\ op' = "panic"
    /\ arg' = grid
    /\ ret' = None
    /\ n_calls' = n_calls + 1
    /\ UNCHANGED <<grid, first, behind, tree>>

NextGame == AddRandomTile \/ AddRandomTilePanic

SpecGame == InitGame /\ [][NextGame]_vars


-----------------------------------------------------------------------------
(* The row kernel on its own: move_row_left applied to one row *)

\* The tiles of the rows: 0..MaxTile, and the two highest values.
RowTiles == (0..MaxTile) \cup {14, 15}

RowInputs == {pack(tiles)[1] : tiles \in [1..4 -> RowTiles]}

InitRow ==
    /\ grid = U64Zero
    /\ op = "row"
    /\ arg \in RowInputs
    /\ ret = None
    /\ first = grid
    /\ n_calls = 0
    /\ behind = Unread
    /\ NoTree

MoveRowLeft ==
    /\ op = "row"
    /\ op' = "move_row_left"
    /\ ret' = move_row_left(arg)
    /\ UNCHANGED <<grid, arg, first, n_calls, behind, tree>>

NextRow == MoveRowLeft

SpecRow == InitRow /\ [][NextRow]_vars

-----------------------------------------------------------------------------
(* The game tree of search_tree.rs.  Its Board is the Grid above; a node   *)
(* handle (an Rc) is a number, a node lives in `players` or `computers`    *)
(* until its last strong handle is dropped.                                *)

\* The caller materializes children only while next_id <= MaxAlloc.
MaxAlloc == 8

\* The caller calls set_root at most MaxSetRoot times.
MaxSetRoot == 1

\* The caller writes the values 1..MaxData to the data cell of a node.
MaxData == 1

\* Cache<K, V>: a map from board to weak handle.  The handles of `nodes` are
\* the ones that still upgrade.
upgrade(cache, nodes, board) ==
    IF board \in DOMAIN cache /\ cache[board] \in DOMAIN nodes
    THEN Some(cache[board])
    ELSE None

\* Cache::get_or_insert_with on the store s = [cache, nodes, next, ...]; fresh
\* is the node the factory makes.  The handle returned is left in s.handle.
get_or_insert_with(s, board, fresh) ==
    LET hit == upgrade(s.cache, s.nodes, board) IN
    IF hit # None
    THEN [s EXCEPT !.handle = hit[1]]
    ELSE [s EXCEPT !.cache  = (board :> s.next) @@ s.cache,
                   !.nodes  = (s.next :> fresh) @@ s.nodes,
                   !.next   = s.next + 1,
                   !.handle = s.next]

strong_count(cache, nodes) ==
    Cardinality({b \in DOMAIN cache : cache[b] \in DOMAIN nodes})

len(cache) == Cardinality(DOMAIN cache)

gc(cache, nodes) ==
    [b \in {k \in DOMAIN cache : cache[k] \in DOMAIN nodes} |-> cache[b]]

PlayerNode_new(board) == [board |-> board, children |-> None, data |-> 0]

\* ComputerNode::new with the children cell filled at construction.
ComputerNode_new_filled(board) ==
    [board |-> board, children |-> Some([with2 |-> <<>>, with4 |-> <<>>])]

ComputerNode_new(board) == [board |-> board, children |-> None]

\* PlayerNodeChildren::is_empty that asks for some absent slot, not for all.
is_empty_any(children) == \E i \in 1..4 : children.nodes[i] = None

is_empty(children) == \A i \in 1..4 : children.nodes[i] = None

\* PlayerNodeChildren::iter over nodes[index..]: the (move, handle) pairs.
RECURSIVE iter_from(_, _)
iter_from(children, index) ==
    IF index > 3 THEN <<>>
    ELSE LET opt == children.nodes[index + 1]
             mv  == CASE index = 0 -> Left
                      [] index = 1 -> Right
                      [] index = 2 -> Up
                      [] index = 3 -> Down
         IN  (IF opt = None THEN <<>> ELSE << <<mv, opt[1]>> >>)
             \o iter_from(children, index + 1)

iter(children) == iter_from(children, 0)

\* PlayerNode::create_children without the test new_grid != self.board.
RECURSIVE PlayerNode_create_children_every_move(_, _, _, _)
PlayerNode_create_children_every_move(board, i, acc, oob) ==
    CHOOSE r \in
      { IF i > Len(MOVES) THEN s
        ELSE LET m        == MOVES[i]
                 new_grid == make_move(board, m, oob)
                 t        == get_or_insert_with(s, new_grid,
                                                ComputerNode_new(new_grid))
             IN  PlayerNode_create_children_every_move(board, i + 1,
                     [t EXCEPT !.children =
                         [s.children EXCEPT ![m + 1] = Some(t.handle)]],
                     oob)
        : s \in {acc} } : TRUE

\* The loop of PlayerNode::create_children over MOVES[i..].  acc holds the
\* computer-node cache, the computer nodes, the next handle and the children
\* array so far; it is bound to s so that each step computes it once.
RECURSIVE PlayerNode_create_children(_, _, _, _)
PlayerNode_create_children(board, i, acc, oob) ==
    CHOOSE r \in
      { IF i > Len(MOVES) THEN s
        ELSE LET m        == MOVES[i]
                 new_grid == make_move(board, m, oob)
             IN  IF new_grid # board
                 THEN LET t == get_or_insert_with(s, new_grid,
                                                  ComputerNode_new(new_grid))
                      IN  PlayerNode_create_children(board, i + 1,
                              [t EXCEPT !.children =
                                  [s.children EXCEPT ![m + 1] = Some(t.handle)]],
                              oob)
                 ELSE PlayerNode_create_children(board, i + 1, s, oob)
        : s \in {acc} } : TRUE

\* The map of ComputerNode::create_children over boards[i..]: the handles
\* collected so far are s.children.
\* The map of ComputerNode::create_children with PlayerNode::new called for
\* every board, the cache entry of the board overwritten.
RECURSIVE collect_player_nodes_uncached(_, _, _)
collect_player_nodes_uncached(boards, i, acc) ==
    CHOOSE r \in
      { IF i > Len(boards) THEN s
        ELSE collect_player_nodes_uncached(boards, i + 1,
                 [s EXCEPT !.cache    = (boards[i] :> s.next) @@ s.cache,
                           !.nodes    = (s.next :> PlayerNode_new(boards[i]))
                                            @@ s.nodes,
                           !.next     = s.next + 1,
                           !.handle   = s.next,
                           !.children = Append(s.children, s.next)])
        : s \in {acc} } : TRUE

RECURSIVE collect_player_nodes(_, _, _)
collect_player_nodes(boards, i, acc) ==
    CHOOSE r \in
      { IF i > Len(boards) THEN s
        ELSE LET t == get_or_insert_with(s, boards[i], PlayerNode_new(boards[i]))
             IN  collect_player_nodes(boards, i + 1,
                     [t EXCEPT !.children = Append(s.children, t.handle)])
        : s \in {acc} } : TRUE

\* ComputerNode::create_children: the store on return, its children field
\* holding [with2, with4].
ComputerNode_create_children(board, s) ==
    CHOOSE r \in UNION
      { { [s4 EXCEPT !.children = [with2 |-> s2.children, with4 |-> s4.children]] :
            s4 \in {collect_player_nodes(ai_moves_with4(board), 1,
                                         [s2 EXCEPT !.children = <<>>])} } :
        s2 \in {collect_player_nodes(ai_moves_with2(board), 1,
                                     [s EXCEPT !.children = <<>>])} } : TRUE

\* ComputerNodeChildren::variants
variants(children) == Len(children.with2)

\* The handles a PlayerNodeChildren holds.
player_children_handles(children) ==
    {children.nodes[i][1] : i \in {j \in 1..4 : children.nodes[j] # None}}

\* The handles a ComputerNodeChildren holds.
computer_children_handles(children) ==
    {children.with2[i] : i \in 1..Len(children.with2)}
    \cup {children.with4[i] : i \in 1..Len(children.with4)}

\* The nodes kept alive by strong handles, from the player nodes P and the
\* computer nodes C on: <<player handles, computer handles>>.
RECURSIVE held(_, _, _, _)
held(ps, cs, P0, C0) ==
    CHOOSE r \in
      { LET C2 == C \cup UNION {player_children_handles(ps[p].children[1]) :
                                   p \in {q \in P : ps[q].children # None}}
            P2 == P \cup UNION {computer_children_handles(cs[c].children[1]) :
                                   c \in {d \in C2 : cs[d].children # None}}
        IN  IF C2 = C /\ P2 = P THEN <<P, C>> ELSE held(ps, cs, P2, C2)
        : P \in {P0}, C \in {C0} } : TRUE

\* The boards the caller makes trees of.
RootBoards ==
    { U64Zero,
      <<1,0,0,0, 0,0,0,0, 0,0,0,0, 0,0,0,0>>,
      <<0,0,0,1, 0,1,0,1, 2,0,0,1, 0,0,0,1>>,
      <<0,1,2,1, 0,2,1,2, 2,1,2,1, 1,2,1,2>>,
      <<2,4,3,2, 3,7,5,1, 1,5,4,3, 2,1,2,1>>,
      <<1,1,2,2, 2,1,2,1, 1,2,1,2, 2,1,2,1>>,
      <<1,2,1,2, 2,1,2,3, 1,2,0,1, 2,3,1,2>>,
      <<15,15,0,0, 0,0,0,0, 0,0,0,0, 0,0,0,0>>,
      <<15,15,15,15, 1,2,1,2, 2,1,2,1, 1,2,1,2>>,
      <<15,1,2,1, 15,2,1,2, 15,1,2,1, 15,2,1,2>> }

\* The boards set_root jumps to besides the boards of live nodes: one with
\* moves left and the full board with none.
JumpBoards ==
    { <<0,0,0,1, 0,1,0,1, 2,0,0,1, 0,0,0,1>>,
      <<2,4,3,2, 3,7,5,1, 1,5,4,3, 2,1,2,1>> }

\* SearchTree::new(board)
InitTree ==
    /\ grid = U64Zero
    /\ op = "new"
    /\ ret = None
    /\ first = grid
    /\ n_calls = 0
    /\ behind = Unread
    /\ computer_node = <<>>
    /\ computers = <<>>
    /\ n_set_root = 0
    /\ \E board \in RootBoards :
        LET s == get_or_insert_with(
                     [cache |-> <<>>, nodes |-> <<>>, next |-> 1, handle |-> 0],
                     board, PlayerNode_new(board))
        IN  /\ arg = board
            /\ root_node = s.handle
            /\ player_node = s.cache
            /\ players = s.nodes
            /\ next_id = s.next

\* PlayerNode::children on a node of the tree: create_children on the first
\* call, the same container afterwards.  The caller's op, arg and ret record
\* the call, the node it was made on and the container it returned.
PlayerNode_children ==
    \E id \in DOMAIN players :
        /\ op # "panic"
        /\ op' = "PlayerNode::children"
        /\ arg' = id
        /\ IF players[id].children # None
           THEN /\ ret' = players[id].children[1]
                /\ UNCHANGED <<behind, tree>>
           ELSE /\ next_id <= MaxAlloc
                /\ LET board == players[id].board
                       need  == all_oob_reads(board)
                   IN  \E m \in Mems(need) :
                         \E s \in {PlayerNode_create_children(board, 1,
                                      [cache |-> computer_node, nodes |-> computers,
                                       next |-> next_id, handle |-> 0,
                                       children |-> <<None, None, None, None>>],
                                      m)} :
                             /\ players' = [players EXCEPT
                                    ![id].children = Some([nodes |-> s.children])]
                             /\ ret' = [nodes |-> s.children]
                             /\ computer_node' = s.cache
                             /\ computers' = s.nodes
                             /\ next_id' = s.next
                             /\ behind' = Observe(m, need)
                /\ UNCHANGED <<root_node, player_node, n_set_root>>
        /\ UNCHANGED <<grid, first, n_calls>>

\* ComputerNode::children on a node of the tree.
ComputerNode_children ==
    \E id \in DOMAIN computers :
        /\ op # "panic"
        /\ op' = "ComputerNode::children"
        /\ arg' = id
        /\ IF computers[id].children # None
           THEN /\ ret' = computers[id].children[1]
                /\ UNCHANGED <<behind, tree>>
           ELSE /\ next_id <= MaxAlloc
                /\ \E s \in {ComputerNode_create_children(computers[id].board,
                                [cache |-> player_node, nodes |-> players,
                                 next |-> next_id, handle |-> 0,
                                 children |-> <<>>])} :
                       /\ computers' = [computers EXCEPT
                              ![id].children = Some(s.children)]
                       /\ ret' = s.children
                       /\ player_node' = s.cache
                       /\ players' = s.nodes
                       /\ next_id' = s.next
                /\ UNCHANGED <<behind, root_node, computer_node, n_set_root>>
        /\ UNCHANGED <<grid, first, n_calls>>

\* ComputerNode::children on a node whose board has no empty cell, in a build
\* with debug assertions: create_children collects two empty lists and
\* debug_assert!(!children_with2.is_empty()) panics before the cell is filled.
\* (Without debug assertions ComputerNode_children returns the empty lists.)
ComputerNode_children_panic ==
    \E id \in DOMAIN computers :
        /\ op # "panic"
        /\ computers[id].children = None
        /\ next_id <= MaxAlloc
        /\ ai_moves_with2(computers[id].board) = <<>>
        /\ op' = "panic"
        /\ arg' = id
        /\ ret' = None
        /\ UNCHANGED <<grid, first, n_calls, behind, tree>>

\* PlayerNode.data.set(v), by a caller that has just asked a node for its
\* children and now stores what it found out about the node.
PlayerNode_data_set ==
    /\ op = "PlayerNode::children"
    /\ \E v \in 1..MaxData :
        /\ players' = [players EXCEPT ![arg].data = v]
        /\ ret' = v
    /\ op' = "PlayerNode::data.set"
    /\ UNCHANGED <<grid, arg, first, n_calls, behind, root_node, player_node,
                   computer_node, computers, next_id, n_set_root>>

\* SearchTree::clean_up_cache that forgets the computer-node cache.
clean_up_cache_player_only(pc, cc, ps, cs) == <<gc(pc, ps), cc>>

\* SearchTree::clean_up_cache on the caches pc, cc with the live nodes ps, cs:
\* <<player_node, computer_node>> afterwards.
clean_up_cache(pc, cc, ps, cs) == <<gc(pc, ps), gc(cc, cs)>>

\* The first statement of set_root with PlayerNode::new called whatever the
\* cache holds.
set_root_node_always_new(board) ==
    [cache  |-> (board :> next_id) @@ player_node,
     nodes  |-> (next_id :> PlayerNode_new(board)) @@ players,
     next   |-> next_id + 1,
     handle |-> next_id]

\* The first statement of set_root: the node of the board, from the cache or
\* new, in the handle field of the store returned.
set_root_node(board) ==
    get_or_insert_with([cache |-> player_node, nodes |-> players,
                        next |-> next_id, handle |-> 0],
                       board, PlayerNode_new(board))

\* SearchTree::set_root(board): the old root's handle is dropped by the
\* assignment, then clean_up_cache runs gc on both caches.
set_root ==
    /\ op # "panic"
    /\ n_set_root < MaxSetRoot
    /\ n_set_root' = n_set_root + 1
    /\ \E board \in JumpBoards \cup {players[p].board : p \in DOMAIN players} :
        \E s \in {set_root_node(board)} :
        \E kept \in {held(s.nodes, computers, {s.handle}, {})} :
        \E ps \in {[p \in kept[1] |-> s.nodes[p]]},
           cs \in {[c \in kept[2] |-> computers[c]]} :
        \E caches \in {clean_up_cache(s.cache, computer_node, ps, cs)} :
            /\ op' = "set_root"
            /\ arg' = board
            /\ ret' = None
            /\ root_node' = s.handle
            /\ players' = ps
            /\ computers' = cs
            /\ player_node' = caches[1]
            /\ computer_node' = caches[2]
            /\ next_id' = s.next
    /\ UNCHANGED <<grid, first, n_calls, behind>>

NextTree ==
    \/ PlayerNode_children
    \/ ComputerNode_children
    \/ ComputerNode_children_panic
    \/ PlayerNode_data_set
    \/ set_root

SpecTree == InitTree /\ [][NextTree]_vars

-----------------------------------------------------------------------------
(* What the claims speak of: a board as 4 x 4 tiles, and the rules of 2048 *)

\* Tile (i, j) of board b, 0 <= i, j <= 3: row i from the top, column j from
\* the left.
Cell(b, i, j) == b[4 * i + j + 1]

EmptyCells(b) == {c \in 1..16 : b[c] = 0}

\* The non-empty tiles of a line, in order.
RECURSIVE Slide(_)
Slide(line) ==
    IF line = <<>> THEN <<>>
    ELSE (IF Head(line) = 0 THEN <<>> ELSE <<Head(line)>>) \o Slide(Tail(line))

\* Scanning from the front, each pair of equal neighbours becomes one tile of
\* the next value, which is not looked at again.
RECURSIVE MergePairs(_)
MergePairs(tiles) ==
    IF Len(tiles) < 2 THEN tiles
    ELSE IF tiles[1] = tiles[2]
         THEN <<tiles[1] + 1>> \o MergePairs(Tail(Tail(tiles)))
         ELSE <<tiles[1]>> \o MergePairs(Tail(tiles))

\* A line after the move, the side of the move first.
RefLine(line) ==
    LET merged == MergePairs(Slide(line))
    IN  [k \in 1..4 |-> IF k <= Len(merged) THEN merged[k] ELSE 0]

\* The cell of board b that is the k-th tile (k = 1..4) of line l (l = 0..3),
\* counted from the side of the move.
LineCell(mv, l, k) ==
    CASE mv = Left  -> 4 * l + k
      [] mv = Right -> 4 * l + (5 - k)
      [] mv = Up    -> 4 * (k - 1) + l + 1
      [] mv = Down  -> 4 * (4 - k) + l + 1

LineOf(b, mv, l) == [k \in 1..4 |-> b[LineCell(mv, l, k)]]

\* Whether the move merges two tiles of value 15 in some line of b.
Merges15(b, mv) ==
    \E l \in 0..3 : \E k \in 1..4 : RefLine(LineOf(b, mv, l))[k] = 16

\* The reference rule applied to each line of b on its own.
RefMove(b, mv) ==
    [c \in 1..16 |->
        LET l == IF mv \in {Left, Right} THEN (c - 1) \div 4 ELSE (c - 1) % 4
            k == CHOOSE k \in 1..4 : LineCell(mv, l, k) = c
        IN  RefLine(LineOf(b, mv, l))[k]]

\* A valid human cell: 0 or 2^k with 1 <= k <= 15.
ValidCell(v) == v = 0 \/ \E k \in 1..15 : v = Pow2(k)

ValidHuman(h) == \A x \in 1..4, y \in 1..4 : ValidCell(h[x][y])

\* The total human tile value of b: the sum of 2^k over the non-empty cells
\* b[c..16].
RECURSIVE HumanValue(_, _)
HumanValue(b, c) ==
    IF c > 16 THEN 0
    ELSE (IF b[c] = 0 THEN 0 ELSE Pow2(b[c])) + HumanValue(b, c + 1)

\* The empty cells of b in row-major order, top-left first.
RECURSIVE EmptyInOrder(_, _)
EmptyInOrder(b, c) ==
    IF c > 16 THEN <<>>
    ELSE (IF b[c] = 0 THEN <<c>> ELSE <<>>) \o EmptyInOrder(b, c + 1)

-----------------------------------------------------------------------------
(* The claims *)

\* C1: on every board where the move merges no two tiles of value 15,
\* make_move returns the reference 2048 rule applied to each line on its own
\* (rows for Left and Right, columns for Up and Down).
C1_MakeMoveIsReferenceRule ==
    (op = "make_move" /\ ~Merges15(grid, arg)) => ret = RefMove(grid, arg)

\* The test board of can_make_move_right, moved right: two merges in one row.
C1_Witness ==
    /\ op = "make_move"
    /\ arg = Right
    /\ grid = <<1,1,2,2, 0,1,1,0, 0,1,1,1, 1,0,0,1>>
    /\ ret = <<0,0,2,3, 0,0,0,2, 0,0,1,2, 0,0,0,2>>

\* C2: from_human of a valid human grid succeeds and unpack_human of the
\* result is the grid again; the all-zero grid gives the default board.
C2_HumanRoundTrip ==
    (op = "from_human" /\ ValidHuman(arg)) =>
        /\ ret # None
        /\ unpack_human(ret[1]) = arg
        /\ (\A x \in 1..4, y \in 1..4 : arg[x][y] = 0) => ret[1] = U64Zero

\* The grid of can_create_grid_from_human_input, encoded.
C2_Witness ==
    /\ op = "from_human"
    /\ arg = BaseHuman
    /\ ret = Some(<<0,1,2,3, 4,5,6,7, 8,9,10,11, 12,13,14,15>>)

\* C3 (as claimed): from_human returns None whenever some cell is neither 0
\* nor a power of two in [2, 32768].
C3_InvalidCellRejected ==
    (op = "from_human" /\ ~ValidHuman(arg)) => ret = None

\* C4 (as claimed): count_empty returns the number of empty cells, 0 to 16.
C4_CountEmptyIsZeroNibbles ==
    op = "count_empty" => ret = Cardinality(EmptyCells(grid))

\* C5: transpose swaps cell (i, j) with cell (j, i), and transposing twice
\* gives the board back.
C5_TransposeSwapsCells ==
    op = "transpose" =>
        /\ \A i \in 0..3, j \in 0..3 : Cell(ret, i, j) = Cell(grid, j, i)
        /\ transpose(ret) = grid

\* The board of can_transpose (tiles 0..15), transposed.
C5_Witness ==
    /\ op = "transpose"
    /\ grid = <<0,1,2,3, 4,5,6,7, 8,9,10,11, 12,13,14,15>>
    /\ ret = <<0,4,8,12, 1,5,9,13, 2,6,10,14, 3,7,11,15>>

\* C6: the spawn enumeration with value v yields one board per empty cell, in
\* row-major order; the i-th board is the grid with v in its i-th empty cell.
C6_SpawnEnumeration ==
    op = "ai_moves" =>
        LET empty == EmptyInOrder(grid, 1) IN
        /\ Len(ret) = Len(empty)
        /\ \A i \in 1..Len(empty) : ret[i] = [grid EXCEPT ![empty[i]] = arg]

\* The board of can_possible_grids_with4: four boards, the last with a 4 at
\* cell (3, 1).
C6_Witness ==
    /\ op = "ai_moves"
    /\ arg = 2
    /\ grid = <<0,3,3,3, 3,3,0,3, 3,3,3,0, 3,0,3,3>>
    /\ Len(ret) = 4
    /\ ret[4] = <<0,3,3,3, 3,3,0,3, 3,3,3,0, 3,2,3,3>>

\* C7: add_random_tile changes exactly one cell, which was empty and now holds
\* 1 or 2; so n successive calls from the empty board leave exactly n
\* non-empty cells, each holding 1 or 2.
C7_RandomTileFrame ==
    /\ op = "add_random_tile" =>
           \E c \in 1..16 :
               /\ arg[c] = 0
               /\ ret[c] \in {1, 2}
               /\ \A d \in (1..16) \ {c} : ret[d] = arg[d]
    /\ (first = U64Zero /\ op # "panic") =>
           /\ Cardinality((1..16) \ EmptyCells(grid)) = n_calls
           /\ \A c \in 1..16 : grid[c] \in {0, 1, 2}

\* MaxSpawns calls from the empty board, a 2 and a 4 among the tiles.
C7_Witness ==
    /\ op = "add_random_tile"
    /\ first = U64Zero
    /\ n_calls = MaxSpawns
    /\ \E c, d \in 1..16 : grid[c] = 1 /\ grid[d] = 2

\* C8 (as claimed): add_random_tile on a board with no empty cell returns a
\* failure and does not panic.
C8_FullBoardIsFailure ==
    (op \in {"add_random_tile", "panic"} /\ EmptyCells(arg) = {}) =>
        (op = "add_random_tile" /\ ret = None)

\* C9: whenever children() has returned for a player node with board B (first
\* call or a later one), game_over(B) holds exactly when none of the four
\* moves changes B, and is_empty() of the returned container holds exactly
\* when game_over(B) does.
C9_GameOverIffNoChildren ==
    op = "PlayerNode::children" =>
        LET B     == players[arg].board
            stuck == \A i \in 1..Len(MOVES) : make_move(B, MOVES[i], Mem) = B
        IN  /\ ret = players[arg].children[1]
            /\ game_over(B, Mem) <=> stuck
            /\ is_empty(ret) <=> game_over(B, Mem)

\* The full board of can_detect_terminal_state as a node with its children
\* materialized: game over, no children.
C9_Witness ==
    /\ op = "PlayerNode::children"
    /\ players[arg].board = <<2,4,3,2, 3,7,5,1, 1,5,4,3, 2,1,2,1>>
    /\ is_empty(ret)
    /\ game_over(players[arg].board, Mem)

\* C10: whenever children() has returned for a player node with board B (first
\* call or a later one), in the returned container the slot of move m is
\* present iff make_move(B, m) # B, the computer node in a present slot has
\* board make_move(B, m), and iter yields the present slots as (move, node)
\* pairs in the order Left, Right, Up, Down.
C10_PlayerChildrenByMove ==
    op = "PlayerNode::children" =>
            LET B     == players[arg].board
                ch    == ret
                legal == SelectSeq(<<Left, Right, Up, Down>>,
                                   LAMBDA m : make_move(B, m, Mem) # B)
                pairs == iter(ch)
            IN  /\ \A m \in {Left, Right, Up, Down} :
                       /\ ch.nodes[m + 1] # None <=> make_move(B, m, Mem) # B
                       /\ ch.nodes[m + 1] # None =>
                              /\ ch.nodes[m + 1][1] \in DOMAIN computers
                              /\ computers[ch.nodes[m + 1][1]].board
                                     = make_move(B, m, Mem)
                /\ Len(pairs) = Len(legal)
                /\ \A k \in 1..Len(legal) :
                       pairs[k] = <<legal[k], ch.nodes[legal[k] + 1][1]>>

\* The root of can_computer_node_children with its children materialized: Left
\* and Up are present, Right and Down absent, and iter yields Left, then Up.
C10_Witness ==
    \E id \in {arg} :
        /\ op = "PlayerNode::children"
        /\ players[id].board = <<0,1,2,1, 0,2,1,2, 2,1,2,1, 1,2,1,2>>
        /\ LET pairs == iter(ret)
           IN  /\ Len(pairs) = 2
               /\ pairs[1][1] = Left
               /\ computers[pairs[1][2]].board
                      = <<1,2,1,0, 2,1,2,0, 2,1,2,1, 1,2,1,2>>
               /\ pairs[2][1] = Up
               /\ computers[pairs[2][2]].board
                      = <<2,1,2,1, 1,2,1,2, 0,1,2,1, 0,2,1,2>>

\* C11 (as claimed): for every computer node with board B whose children are
\* materialized, with2, with4 and variants() all have count_empty(B) > 0
\* entries, and the boards of with2[i] and with4[i] differ from B in the same
\* single cell, which holds 1 in with2[i] and 2 in with4[i].
C11_ComputerChildrenPerEmptyCell ==
    \A id \in DOMAIN computers :
        computers[id].children # None =>
            LET B  == computers[id].board
                ch == computers[id].children[1]
            IN  /\ Len(ch.with2) = count_empty(B)
                /\ Len(ch.with4) = count_empty(B)
                /\ variants(ch) = count_empty(B)
                /\ count_empty(B) > 0
                /\ \A i \in 1..Len(ch.with2) :
                       \E c \in 1..16 :
                           /\ B[c] = 0
                           /\ players[ch.with2[i]].board = [B EXCEPT ![c] = 1]
                           /\ players[ch.with4[i]].board = [B EXCEPT ![c] = 2]

\* C12: no two live nodes of the same kind have the same board, and children
\* containers that lead to the same board hold the same node handle.
C12_OneNodePerBoard ==
    /\ \A a, b \in DOMAIN players :
           players[a].board = players[b].board => a = b
    /\ \A a, b \in DOMAIN computers :
           computers[a].board = computers[b].board => a = b
    /\ \A p, q \in {x \in DOMAIN players : players[x].children # None} :
           \A g \in player_children_handles(players[p].children[1]),
              h \in player_children_handles(players[q].children[1]) :
               /\ g \in DOMAIN computers
               /\ h \in DOMAIN computers
               /\ computers[g].board = computers[h].board => g = h
    /\ \A c, d \in {x \in DOMAIN computers : computers[x].children # None} :
           \A g \in computer_children_handles(computers[c].children[1]),
              h \in computer_children_handles(computers[d].children[1]) :
               /\ g \in DOMAIN players
               /\ h \in DOMAIN players
               /\ players[g].board = players[h].board => g = h

\* Two computer nodes, reached by Left and by Up from the same root, whose
\* spawns meet in one board: both hold the same player node.
C12_Witness ==
    \E c, d \in DOMAIN computers :
        /\ c # d
        /\ computers[c].children # None
        /\ computers[d].children # None
        /\ computers[c].board = <<1,2,1,2, 2,1,2,3, 1,2,1,0, 2,3,1,2>>
        /\ computers[d].board = <<1,2,1,2, 2,1,2,3, 1,2,1,1, 2,3,0,2>>
        /\ \E h \in computer_children_handles(computers[c].children[1])
                    \cap computer_children_handles(computers[d].children[1]) :
               players[h].board = <<1,2,1,2, 2,1,2,3, 1,2,1,1, 2,3,1,2>>

\* C13: when set_root(B') has returned, the root's board is B', neither cache
\* holds a stale entry (len = strong_count), every cached node is reachable
\* from the new root through materialized children, and if the new root has no
\* materialized children (as when B' was not in the old tree) the known player
\* node count is 1 and the known computer node count is 0.
C13_SetRootLeavesNoStaleEntry ==
    op = "set_root" =>
        LET reach == held(players, computers, {root_node}, {}) IN
        /\ players[root_node].board = arg
        /\ len(player_node) = strong_count(player_node, players)
        /\ len(computer_node) = strong_count(computer_node, computers)
        /\ \A b \in DOMAIN player_node : player_node[b] \in reach[1]
        /\ \A b \in DOMAIN computer_node : computer_node[b] \in reach[2]
        /\ players[root_node].children = None =>
               /\ strong_count(player_node, players) = 1
               /\ strong_count(computer_node, computers) = 0

\* set_root to the board of can_player_node_children_by_move, a fresh node,
\* after the old tree had grown to more than 30 nodes.
C13_Witness ==
    /\ op = "set_root"
    /\ arg = <<0,0,0,1, 0,1,0,1, 2,0,0,1, 0,0,0,1>>
    /\ next_id > 30
    /\ root_node = next_id - 1
    /\ strong_count(player_node, players) = 1
    /\ strong_count(computer_node, computers) = 0

\* C14: when set_root(B') is called while a player node of board B' is live,
\* the new root is that node, with the data the caller wrote and with every
\* node of its materialized subtree as it was.
C14_SetRootReusesLiveNode ==
    [][ (op' = "set_root" /\ n_set_root' # n_set_root) =>
            \A p \in DOMAIN players :
                players[p].board = arg' =>
                    LET sub == held(players, computers, {p}, {}) IN
                    /\ root_node' = p
                    /\ \A q \in sub[1] :
                           q \in DOMAIN players' /\ players'[q] = players[q]
                    /\ \A c \in sub[2] :
                           c \in DOMAIN computers' /\ computers'[c] = computers[c]
      ]_vars

\* set_root has made a grandchild of the old root the root: it carries the
\* data written to it and the children materialized before the call.
C14_Witness ==
    /\ op = "set_root"
    /\ root_node > 1
    /\ players[root_node].data = 1
    /\ players[root_node].children # None
    /\ ~is_empty(players[root_node].children[1])
    /\ \A h \in player_children_handles(players[root_node].children[1]) :
           h \in DOMAIN computers

\* C15: SearchTree::new leaves one live player node and no computer node; the
\* first children() call on a node changes that node's cell only, creates no
\* node but direct children of it, each without children of its own, and
\* leaves the other cache alone; a later children() call on the node returns
\* the container the cell holds and changes nothing of the tree.
C15_ChildrenLazyAndOnce ==
    /\ op = "new" =>
           /\ strong_count(player_node, players) = 1
           /\ DOMAIN players = {root_node}
           /\ players[root_node].children = None
           /\ strong_count(computer_node, computers) = 0
           /\ DOMAIN computers = {}
    /\ [][ /\ (op' = "PlayerNode::children" /\ players[arg'].children = None) =>
               LET made == (DOMAIN computers') \ (DOMAIN computers) IN
               /\ players' = [players EXCEPT ![arg'].children = Some(ret')]
               /\ player_node' = player_node
               /\ made \subseteq player_children_handles(ret')
               /\ player_children_handles(ret') \subseteq DOMAIN computers'
               /\ \A c \in made : computers'[c].children = None
               /\ \A c \in DOMAIN computers :
                      c \in DOMAIN computers' /\ computers'[c] = computers[c]
           /\ (op' = "ComputerNode::children" /\ computers[arg'].children = None) =>
               LET made == (DOMAIN players') \ (DOMAIN players) IN
               /\ computers' = [computers EXCEPT ![arg'].children = Some(ret')]
               /\ computer_node' = computer_node
               /\ made \subseteq computer_children_handles(ret')
               /\ computer_children_handles(ret') \subseteq DOMAIN players'
               /\ \A q \in made : players'[q].children = None
               /\ \A q \in DOMAIN players :
                      q \in DOMAIN players' /\ players'[q] = players[q]
           /\ (op' = "PlayerNode::children" /\ players[arg'].children # None) =>
               /\ ret' = players[arg'].children[1]
               /\ UNCHANGED tree
           /\ (op' = "ComputerNode::children" /\ computers[arg'].children # None) =>
               /\ ret' = computers[arg'].children[1]
               /\ UNCHANGED tree
         ]_vars

\* The root of can_player_node_children_by_move after children(): one player
\* node, four computer nodes, none of them with children.
C15_Witness ==
    /\ op = "PlayerNode::children"
    /\ arg = root_node
    /\ players[root_node].board = <<0,0,0,1, 0,1,0,1, 2,0,0,1, 0,0,0,1>>
    /\ strong_count(player_node, players) = 1
    /\ strong_count(computer_node, computers) = 4
    /\ \A c \in DOMAIN computers : computers[c].children = None

\* C16 (as claimed): each move table has an entry for every 16-bit row, so
\* every lookup make_move makes, the one at index 0xFFFF included, reads an
\* entry inside its table.
C16_LookupsInBounds ==
    op = "make_move" =>
        LET rs == IF arg \in {Left, Right} THEN rows(grid)
                  ELSE rows(transpose(grid))
        IN  /\ \A x \in 1..4 : rs[x] < TableLen
            /\ oob_reads(grid, arg) = {}

\* C17: on a row in which the sweep merges two tiles of value 15,
\* move_row_left returns the all-zero row; on every other row it returns a row
\* of four nibbles in 0..15, the tiles of the sweep.
C17_MergeOf15GivesZeroRow ==
    op = "move_row_left" =>
        LET line == RefLine(unpack(arg)) IN
        IF \E k \in 1..4 : line[k] = 16
        THEN ret = 0
        ELSE /\ ret \in 0..U16Max
             /\ \A k \in 1..4 : unpack(ret)[k] \in 0..15
             /\ unpack(ret) = line

\* The row 15 15 1 2: the sweep gives 16 1 2 0, which does not pack.
C17_Witness ==
    /\ op = "move_row_left"
    /\ unpack(arg) = <<15, 15, 1, 2>>
    /\ ret = 0

\* C18 (as claimed): a move that changes the board leaves at least one empty
\* cell, so every computer node has a board with an empty cell, its with2 and
\* with4 lists are not empty once materialized, and the debug assertions of
\* ComputerNode::create_children never fail.
C18_LegalMoveLeavesEmptyCell ==
    /\ \A p \in DOMAIN players :
           \A i \in 1..Len(MOVES) :
               LET B == players[p].board
                   N == make_move(B, MOVES[i], Mem)
               IN  N # B => EmptyCells(N) # {}
    /\ \A c \in DOMAIN computers :
           /\ EmptyCells(computers[c].board) # {}
           /\ computers[c].children # None =>
                  /\ computers[c].children[1].with2 # <<>>
                  /\ computers[c].children[1].with4 # <<>>
    /\ op # "panic"

\* C19 (as claimed): the total human tile value is the same across every edge
\* from a player node to a computer node, grows by exactly 2 or 4 across every
\* edge from a computer node to a player node (2 in with2, 4 in with4), and no
\* node is reachable from itself through children.
C19_ValueNeverDecreases ==
    /\ \A p \in {x \in DOMAIN players : players[x].children # None} :
           /\ \A h \in player_children_handles(players[p].children[1]) :
                  HumanValue(computers[h].board, 1)
                      = HumanValue(players[p].board, 1)
           /\ p \notin held(players, computers, {},
                            player_children_handles(players[p].children[1]))[1]
    /\ \A c \in {x \in DOMAIN computers : computers[x].children # None} :
           LET ch == computers[c].children[1]
               v  == HumanValue(computers[c].board, 1)
           IN  /\ \A i \in 1..Len(ch.with2) :
                      HumanValue(players[ch.with2[i]].board, 1) = v + 2
               /\ \A i \in 1..Len(ch.with4) :
                      HumanValue(players[ch.with4[i]].board, 1) = v + 4
               /\ c \notin held(players, computers,
                                computer_children_handles(ch), {})[2]

=============================================================================
